---------------------------- MODULE Spec2Model ----------------------------
(***************************************************************************)
(* Model of lib/utils/fdt/fdt_helper.c (OpenSBI): the device-tree fixups   *)
(* (CPU, PLIC, reserved memory) and the device parsers (UART, PLIC, CLINT).*)
(*                                                                         *)
(* The blob is a table of nodes (name, parent, properties) plus the free   *)
(* space left in its buffer.  The libfdt primitives the helpers call are   *)
(* modelled as operators on a "run" record m = [f, log, inj]: the blob, the*)
(* log of mutating libfdt calls made so far, and the index of the call     *)
(* into which a fault is injected (0: none).  Each helper is one action.   *)
(***************************************************************************)
EXTENDS Integers, Sequences, FiniteSets, TLC

VARIABLES
    fdt,    \* the blob
    fdt0,   \* the blob before the last call
    plat,   \* the platform: hart table, PMP table
    out,    \* the parsers' output descriptors
    out0,   \* the descriptors before the last call
    call    \* the last call: function, arguments, return value, libfdt calls

vars == <<fdt, fdt0, plat, out, out0, call>>

---------------------------------------------------------------------------
(* Bounds of the model.                                                    *)

\* A byte holds values 0..ByteBase-1 (2^8 in the program).
ByteBase == 4
\* Harts and /cpus/cpu@i nodes.
MaxCpu == 2
\* Entries of the PMP table (PMP_COUNT in the program).
MaxPmp == 3
\* Calls in one behaviour.
MaxCalls == 2
\* Cells of an interrupts-extended property.
MaxCells == 3

---------------------------------------------------------------------------
(* Integers of the program.                                                *)

\* A cell (fdt32_t, u32) is two bytes wide here, four in the program.
CellBase == ByteBase * ByteBase
\* unsigned long and uint64_t hold two cells.
ULong == CellBase * CellBase
\* The all-ones cell, 0xffffffff.
AllOnes == CellBase - 1

IRQ_M_EXT == 11
PMP_R == 1
PMP_W == 2
PMP_X == 4
PMP_A == 24
SBI_ENODEV == -1000

RECURSIVE BitAnd(_, _)
BitAnd(a, b) ==
    IF a = 0 \/ b = 0 THEN 0
    ELSE (a % 2) * (b % 2) + 2 * BitAnd(a \div 2, b \div 2)

\* The blob holds big-endian cells and the hart is little-endian: both
\* conversions reverse the bytes of a cell.
fdt32_to_cpu(x) == (x % ByteBase) * ByteBase + (x \div ByteBase)
cpu_to_fdt32(x) == (x % ByteBase) * ByteBase + (x \div ByteBase)

\* (u64)v >> 32 and the truncation of v to one cell.
HighCell(v) == (v \div CellBase) % CellBase
LowCell(v) == v % CellBase

---------------------------------------------------------------------------
(* The blob and the libfdt primitives.                                     *)

FDT_ERR_NOTFOUND == 1
FDT_ERR_EXISTS == 2
FDT_ERR_NOSPACE == 3
FDT_ERR_BADOFFSET == 4
FDT_ERR_BADSTRUCTURE == 11
FDT_ERR_BADNCELLS == 14
FDT_MAX_NCELLS == 4

\* Property values: a string (with its NUL) or cells plus x trailing bytes.
PStr(s) == [k |-> "str", s |-> s, c |-> <<>>, x |-> 0]
PCells(c) == [k |-> "cells", s |-> "", c |-> c, x |-> 0]
PRaw(c, x) == [k |-> "cells", s |-> "", c |-> c, x |-> x]
PropLen(p) == IF p.k = "str" THEN Len(p.s) + 1 ELSE 4 * Len(p.c) + p.x

Align4(n) == ((n + 3) \div 4) * 4

RECURSIVE DecLen(_)
DecLen(n) == IF n < 10 THEN 1 ELSE 1 + DecLen(n \div 10)
RECURSIVE HexLen(_)
HexLen(n) == IF n < 16 THEN 1 ELSE 1 + HexLen(n \div 16)

\* A node name is <<base>> or <<base, unit...>>; its length as a C string.
NameLen(name) ==
    CASE Len(name) = 1 -> Len(name[1])
      [] name[1] = "cpu" -> Len(name[1]) + 1 + DecLen(name[2])
      [] Len(name) = 3 -> Len(name[1]) + DecLen(name[2]) + 1 + HexLen(name[3])
      [] OTHER -> Len(name[1]) + DecLen(name[2]) + 1 + HexLen(name[3])
                  + 1 + HexLen(name[4])

\* Node offsets are 0-based positions in the node table; 0 is the root.
Node(f, off) == f.nodes[off + 1]
ValidOff(f, off) == off >= 0 /\ off < Len(f.nodes)
HasProp(f, off, pn) == pn \in DOMAIN Node(f, off).props
Prop(f, off, pn) == Node(f, off).props[pn]
Children(f, off) == {o \in 0..(Len(f.nodes) - 1) : Node(f, o).parent = off}

MinOf(S) == CHOOSE a \in S : \A b \in S : a <= b

fdt_subnode_offset(f, parent, name) ==
    LET S == {o \in Children(f, parent) : Node(f, o).name = name}
    IN  IF S = {} THEN -FDT_ERR_NOTFOUND ELSE MinOf(S)

RECURSIVE PathFrom(_, _, _)
PathFrom(f, off, path) ==
    IF off < 0 \/ path = <<>> THEN off
    ELSE PathFrom(f, fdt_subnode_offset(f, off, Head(path)), Tail(path))

fdt_path_offset(f, path) == PathFrom(f, 0, path)

fdt_parent_offset(f, off) ==
    IF ~ValidOff(f, off) THEN -FDT_ERR_BADOFFSET
    ELSE IF off = 0 THEN -FDT_ERR_NOTFOUND
    ELSE Node(f, off).parent

\* The first node after startoffset whose compatible property is compat.
fdt_node_offset_by_compatible(f, startoffset, compat) ==
    LET S == {o \in 0..(Len(f.nodes) - 1) :
                 /\ o > startoffset
                 /\ HasProp(f, o, "compatible")
                 /\ Prop(f, o, "compatible") = PStr(compat)}
    IN  IF S = {} THEN -FDT_ERR_NOTFOUND ELSE MinOf(S)

fdt_cells(f, off, pn, dflt, min) ==
    IF ~ValidOff(f, off) THEN -FDT_ERR_BADOFFSET
    ELSE IF ~HasProp(f, off, pn) THEN dflt
    ELSE LET p == Prop(f, off, pn)
         IN  IF p.k # "cells" \/ Len(p.c) # 1 \/ p.x # 0
                THEN -FDT_ERR_BADNCELLS
             ELSE IF fdt32_to_cpu(p.c[1]) < min
                     \/ fdt32_to_cpu(p.c[1]) > FDT_MAX_NCELLS
                THEN -FDT_ERR_BADNCELLS
             ELSE fdt32_to_cpu(p.c[1])

fdt_address_cells(f, off) == fdt_cells(f, off, "#address-cells", 2, 1)
fdt_size_cells(f, off) == fdt_cells(f, off, "#size-cells", 1, 0)

\* A run of a helper: the blob, the mutating libfdt calls so far, the fault.
\* ret is the helper's return value.
Start(f, inj) == [f |-> f, log |-> <<>>, inj |-> inj, ret |-> 0]
Res(m) == m.log[Len(m.log)].res
Faulty(m) == m.inj = Len(m.log) + 1
Fail(m) == [m EXCEPT !.ret = Res(m)]
Logged(m, fn, off, name, res, f2) ==
    [m EXCEPT !.f = IF res < 0 THEN m.f ELSE f2,
              !.log = Append(@, [fn |-> fn, node |-> off,
                                 name |-> name, res |-> res])]

\* fdt_open_into(fdt, fdt, fdt_totalsize(fdt) + extra)
fdt_open_into(m, extra) ==
    IF Faulty(m)
    THEN Logged(m, "fdt_open_into", 0, <<>>, -FDT_ERR_BADSTRUCTURE, m.f)
    ELSE Logged(m, "fdt_open_into", 0, <<>>, 0,
                [m.f EXCEPT !.slack = @ + extra])

fdt_setprop(m, off, pn, val) ==
    LET f == m.f
        cost == IF ~ValidOff(f, off) THEN 0
                ELSE IF HasProp(f, off, pn)
                     THEN Align4(PropLen(val)) - Align4(PropLen(Prop(f, off, pn)))
                     ELSE 12 + Align4(PropLen(val))
                          + (IF pn \in f.strs THEN 0 ELSE Len(pn) + 1)
        res == IF Faulty(m) THEN -FDT_ERR_BADSTRUCTURE
               ELSE IF ~ValidOff(f, off) THEN -FDT_ERR_BADOFFSET
               ELSE IF cost > f.slack THEN -FDT_ERR_NOSPACE
               ELSE 0
        f2 == IF res < 0 THEN f
              ELSE [f EXCEPT !.slack = @ - cost,
                             !.strs = @ \cup {pn},
                             !.nodes[off + 1].props =
                                 (pn :> val) @@ Node(f, off).props]
    IN  Logged(m, "fdt_setprop", off, <<pn>>, res, f2)

fdt_setprop_string(m, off, pn, s) == fdt_setprop(m, off, pn, PStr(s))
fdt_setprop_empty(m, off, pn) == fdt_setprop(m, off, pn, PCells(<<>>))
fdt_setprop_u32(m, off, pn, v) ==
    fdt_setprop(m, off, pn, PCells(<<cpu_to_fdt32(v % CellBase)>>))

fdt_add_subnode(m, parent, name) ==
    LET f == m.f
        cost == 8 + Align4(NameLen(name) + 1)
        res == IF Faulty(m) THEN -FDT_ERR_BADSTRUCTURE
               ELSE IF ~ValidOff(f, parent) THEN -FDT_ERR_BADOFFSET
               ELSE IF fdt_subnode_offset(f, parent, name) >= 0
                    THEN -FDT_ERR_EXISTS
               ELSE IF cost > f.slack THEN -FDT_ERR_NOSPACE
               ELSE Len(f.nodes)
        f2 == IF res < 0 THEN f
              ELSE [f EXCEPT !.slack = @ - cost,
                             !.nodes = Append(@, [name |-> name,
                                                  parent |-> parent,
                                                  props |-> <<>>])]
    IN  Logged(m, "fdt_add_subnode", parent, name, res, f2)

---------------------------------------------------------------------------
(* fdt_cpu_fixup                                                           *)

CpuPath(i) == << <<"cpus">>, <<"cpu", i>> >>

cpu_fixup_hart(m, p, i) ==
    LET cpu_offset == fdt_path_offset(m.f, CpuPath(i))
    IN  IF p.hart_invalid[i]
        THEN fdt_setprop_string(m, cpu_offset, "status", "disabled")
        ELSE m

RECURSIVE cpu_fixup_loop(_, _, _)
cpu_fixup_loop(m, p, i) ==
    IF i >= p.hart_count THEN m
    ELSE cpu_fixup_loop(cpu_fixup_hart(m, p, i), p, i + 1)

cpu_fixup_opened(m, p) == IF Res(m) < 0 THEN m ELSE cpu_fixup_loop(m, p, 0)

fdt_cpu_fixup(f, p, inj) == cpu_fixup_opened(fdt_open_into(Start(f, inj), 32), p)

---------------------------------------------------------------------------
(* States shared by the specifications.                                    *)

NoPlat == [hart_count |-> 0, hart_invalid |-> <<>>,
           has_pmp |-> FALSE, pmp |-> <<>>]
NoOut == [uart |-> [addr |-> 0, freq |-> 0, baud |-> 0],
          plic |-> [addr |-> 0, num_src |-> 0],
          clint |-> 0]
\* okn: the number of the first call that returned 0, 0 while there is none.
NoCall == [fn |-> "none", n |-> 0, ret |-> 0, log |-> <<>>, arg |-> "",
           junk |-> 0, okn |-> 0]

RootNode(props) == [name |-> <<"">>, parent |-> -1, props |-> props]
CellsProps(na, ns) ==
    ("#address-cells" :> PCells(<<cpu_to_fdt32(na)>>))
    @@ ("#size-cells" :> PCells(<<cpu_to_fdt32(ns)>>))

\* The property names of a node table, as the strings block holds them.
NamesOf(nodes) == UNION {DOMAIN nodes[k].props : k \in 1..Len(nodes)}

Called(fn, arg, m, ret) ==
    [fn |-> fn, n |-> call.n + 1, ret |-> ret, log |-> m.log, arg |-> arg,
     junk |-> 0,
     okn |-> IF call.okn = 0 /\ ret = 0 THEN call.n + 1 ELSE call.okn]

\* The state after a fixup returned run m; an injected fault must have hit.
Returned(fn, arg, m, inj) ==
    /\ inj <= Len(m.log)
    /\ fdt' = m.f
    /\ fdt0' = fdt
    /\ call' = Called(fn, arg, m, m.ret)
    /\ UNCHANGED <<plat, out, out0>>

---------------------------------------------------------------------------
(* Specification of fdt_cpu_fixup.                                         *)

CpuKinds == {"nonode", "nostatus", "okay", "disabled"}

CpuNode(i, kind) ==
    [name |-> <<"cpu", i>>, parent |-> 1,
     props |-> IF kind = "nostatus" THEN ("device_type" :> PStr("cpu"))
               ELSE ("device_type" :> PStr("cpu")) @@ ("status" :> PStr(kind))]

RECURSIVE CpuNodes(_, _)
CpuNodes(kinds, i) ==
    IF i >= MaxCpu THEN <<>>
    ELSE (IF kinds[i] = "nonode" THEN <<>> ELSE <<CpuNode(i, kinds[i])>>)
         \o CpuNodes(kinds, i + 1)

CpuBlob(kinds, slack) ==
    LET nodes == <<RootNode(CellsProps(2, 2)),
                   [name |-> <<"cpus">>, parent |-> 0,
                    props |-> CellsProps(1, 0)]>> \o CpuNodes(kinds, 0)
    IN  [slack |-> slack, strs |-> NamesOf(nodes), nodes |-> nodes]

InitCpu ==
    /\ \E kinds \in [0..(MaxCpu - 1) -> CpuKinds], slack \in {0, 64} :
           fdt = CpuBlob(kinds, slack)
    /\ fdt0 = fdt
    /\ \E n \in 0..MaxCpu, inv \in [0..(MaxCpu - 1) -> BOOLEAN] :
           /\ \A i \in 0..(MaxCpu - 1) : i >= n => ~inv[i]
           /\ plat = [NoPlat EXCEPT !.hart_count = n, !.hart_invalid = inv]
    /\ out = NoOut
    /\ out0 = NoOut
    /\ call = NoCall

\* A call on which no fault is injected.
CpuFixup ==
    /\ call.n < MaxCalls
    /\ Returned("fdt_cpu_fixup", "", fdt_cpu_fixup(fdt, plat, 0), 0)

\* A call whose inj-th libfdt call fails.
CpuFixupFault ==
    /\ call.n < MaxCalls
    /\ \E inj \in 1..(MaxCpu + 1) :
           Returned("fdt_cpu_fixup", "fault", fdt_cpu_fixup(fdt, plat, inj), inj)

NextCpu == CpuFixup \/ CpuFixupFault
SpecCpu == InitCpu /\ [][NextCpu]_vars

NextCpuNoFault == CpuFixup
SpecCpuNoFault == InitCpu /\ [][NextCpuNoFault]_vars

\* The status property of the node at off, "" when it has none.
StatusOf(f, off) ==
    IF HasProp(f, off, "status") THEN Prop(f, off, "status").s ELSE ""

\* C4: after fdt_cpu_fixup, for every hart index i below the hart count: an
\* existing /cpus/cpu@i of an invalid hart has status "disabled", an existing
\* node of a valid hart keeps its status, and a missing node is skipped: no
\* other node (the root included) gets or changes a status property.
C4_CpuFixupMarksInvalid ==
    call.fn = "fdt_cpu_fixup" =>
        /\ Len(fdt.nodes) = Len(fdt0.nodes)
        /\ \A i \in 0..(plat.hart_count - 1) :
               LET off == fdt_path_offset(fdt0, CpuPath(i))
               IN  off >= 0 =>
                       IF plat.hart_invalid[i]
                       THEN StatusOf(fdt, off) = "disabled"
                       ELSE StatusOf(fdt, off) = StatusOf(fdt0, off)
        /\ \A off \in 0..(Len(fdt0.nodes) - 1) :
               (\A i \in 0..(plat.hart_count - 1) :
                    fdt_path_offset(fdt0, CpuPath(i)) # off)
               => Node(fdt, off) = Node(fdt0, off)

\* C9: fdt_cpu_fixup is idempotent: the status of every node after a second
\* run in a row is the status it had after the first.
C9_CpuFixupIdempotent ==
    (call.fn = "fdt_cpu_fixup" /\ call.n >= 2) =>
        \A off \in 0..(Len(fdt.nodes) - 1) :
            StatusOf(fdt, off) = StatusOf(fdt0, off)

---------------------------------------------------------------------------
(* fdt_plic_fixup                                                          *)

\* Mutant: the cell is compared without fdt32_to_cpu.
plic_fixup_pair_raw(cells, i) ==
    IF cells[2 * i + 2] = IRQ_M_EXT
    THEN [cells EXCEPT ![2 * i + 2] = cpu_to_fdt32(AllOnes)]
    ELSE cells

\* One turn of the loop: pair i (0-based) of the cell array.
plic_fixup_pair(cells, i) ==
    IF fdt32_to_cpu(cells[2 * i + 2]) = IRQ_M_EXT
    THEN [cells EXCEPT ![2 * i + 2] = cpu_to_fdt32(AllOnes)]
    ELSE cells

RECURSIVE plic_fixup_loop(_, _, _)
plic_fixup_loop(cells, cells_count, i) ==
    IF i >= cells_count \div 2 THEN cells
    ELSE plic_fixup_loop(plic_fixup_pair(cells, i), cells_count, i + 1)

fdt_plic_fixup(f, compat) ==
    LET plic_off == fdt_node_offset_by_compatible(f, 0, compat)
    IN  IF plic_off < 0 THEN f
        ELSE IF ~HasProp(f, plic_off, "interrupts-extended") THEN f
        ELSE LET p == Prop(f, plic_off, "interrupts-extended")
                 cells_count == PropLen(p) \div 4
             IN  IF cells_count = 0 THEN f
                 ELSE [f EXCEPT
                          !.nodes[plic_off + 1].props["interrupts-extended"].c =
                              plic_fixup_loop(p.c, cells_count, 0)]

---------------------------------------------------------------------------
(* Specification of fdt_plic_fixup.                                        *)

PlicCompats == {"riscv,plic0", "sifive,plic-1.0.0"}

\* Raw cells of the blob: the interrupt id as the blob holds it, the same
\* number unconverted, the all-ones cell, zero.
PlicCells == {cpu_to_fdt32(IRQ_M_EXT), IRQ_M_EXT, AllOnes, 0}

CellSeqs(S, n) == UNION {[1..k -> S] : k \in 0..n}

\* The interrupts-extended values a node may hold; <<"none">> for no property.
PlicProps ==
    {<<"none">>} \cup {<<"prop", c, x>> : c \in CellSeqs(PlicCells, MaxCells),
                                          x \in {0, 2}}

PlicNode(name, parent, compat, ie) ==
    [name |-> name, parent |-> parent,
     props |-> IF ie[1] = "none" THEN ("compatible" :> PStr(compat))
               ELSE ("compatible" :> PStr(compat))
                    @@ ("interrupts-extended" :> PRaw(ie[2], ie[3]))]

InitPlic ==
    /\ \E c1 \in PlicCompats, ie1 \in PlicProps, second \in BOOLEAN,
          rootie \in {<<"none">>, <<"prop", <<0, cpu_to_fdt32(IRQ_M_EXT)>>, 0>>} :
           LET nodes ==
                   <<PlicNode(<<"">>, -1, "riscv,plic0", rootie),
                     PlicNode(<<"plic", 1>>, 0, c1, ie1)>>
                   \o (IF second
                       THEN <<PlicNode(<<"plic", 2>>, 0, "riscv,plic0",
                                 <<"prop", <<0, cpu_to_fdt32(IRQ_M_EXT)>>, 0>>)>>
                       ELSE <<>>)
           IN  fdt = [slack |-> 0, strs |-> NamesOf(nodes), nodes |-> nodes]
    /\ fdt0 = fdt
    /\ plat = NoPlat
    /\ out = NoOut
    /\ out0 = NoOut
    /\ call = NoCall

PlicFixup ==
    /\ call.n < MaxCalls
    /\ \E compat \in PlicCompats :
           /\ fdt' = fdt_plic_fixup(fdt, compat)
           /\ call' = Called("fdt_plic_fixup", compat, Start(fdt, 0), 0)
    /\ fdt0' = fdt
    /\ UNCHANGED <<plat, out, out0>>

NextPlic == PlicFixup
SpecPlic == InitPlic /\ [][NextPlic]_vars

\* The node the last call of fdt_plic_fixup matched, in the blob before it.
PlicOff == fdt_node_offset_by_compatible(fdt0, 0, call.arg)
PlicHadProp == PlicOff >= 0 /\ HasProp(fdt0, PlicOff, "interrupts-extended")

\* C3: fdt_plic_fixup changes only the second cell of a pair of the matched
\* node's interrupts-extended whose value is IRQ_M_EXT, to 0xffffffff; first
\* cells, other second cells, the lone last cell of an odd array, the length
\* and the rest of the blob stay as they were; with no matching node or no
\* (or an empty) property nothing changes.
C3_PlicFixupFrame ==
    call.fn = "fdt_plic_fixup" =>
        IF ~PlicHadProp THEN fdt = fdt0
        ELSE LET old == Prop(fdt0, PlicOff, "interrupts-extended")
                 new == Prop(fdt, PlicOff, "interrupts-extended")
             IN  /\ fdt = [fdt0 EXCEPT
                              !.nodes[PlicOff + 1].props["interrupts-extended"].c
                                  = new.c]
                 /\ Len(new.c) = Len(old.c)
                 /\ \A k \in 1..Len(old.c) :
                        IF k % 2 = 0 /\ fdt32_to_cpu(old.c[k]) = IRQ_M_EXT
                        THEN fdt32_to_cpu(new.c[k]) = AllOnes
                        ELSE new.c[k] = old.c[k]

\* C3 witness: a call rewrote a routed second cell of an odd-length array
\* whose lone last cell also holds IRQ_M_EXT and stayed.
C3_Witness ==
    /\ call.fn = "fdt_plic_fixup"
    /\ PlicHadProp
    /\ LET old == Prop(fdt0, PlicOff, "interrupts-extended")
           new == Prop(fdt, PlicOff, "interrupts-extended")
       IN  /\ Len(old.c) = 3
           /\ fdt32_to_cpu(old.c[2]) = IRQ_M_EXT
           /\ fdt32_to_cpu(new.c[2]) = AllOnes
           /\ fdt32_to_cpu(new.c[3]) = IRQ_M_EXT
           /\ old.x = 2

---------------------------------------------------------------------------
(* fdt_reserved_memory_fixup                                               *)

\* pmp_get(i, &prot, &addr, &size): entry i of the PMP table.
pmp_get(p, i) == p.pmp[i + 1]

pmp_active(prot) == BitAnd(prot, PMP_A) # 0
\* Mutant: the read permission is left out of the mask.
pmp_noaccess_rw(prot) == BitAnd(prot, PMP_W + PMP_X) = 0
pmp_noaccess(prot) == BitAnd(prot, PMP_R + PMP_W + PMP_X) = 0

\* The child's name: "mmode_pmp<j>@<high>,<low>" or "mmode_pmp<j>@<low>".
rsv_name(na, j, addr) ==
    IF na > 1 /\ HighCell(addr) # 0
    THEN <<"mmode_pmp", j, HighCell(addr), LowCell(addr)>>
    ELSE <<"mmode_pmp", j, LowCell(addr)>>

\* if (err < 0) return err;
rsv_checked(m) == IF Res(m) < 0 THEN Fail(m) ELSE m

\* The cells of the child's reg property.
rsv_reg(na, ns, addr, size) ==
    (IF na > 1 THEN <<cpu_to_fdt32(HighCell(addr))>> ELSE <<>>)
    \o <<cpu_to_fdt32(LowCell(addr))>>
    \o (IF ns > 1 THEN <<cpu_to_fdt32(HighCell(size))>> ELSE <<>>)
    \o <<cpu_to_fdt32(LowCell(size))>>

\* Mutant: the result of the no-map write is not checked.
rsv_child_reg_unchecked(m, subnode, na, ns, addr, size) ==
    rsv_checked(fdt_setprop(m, subnode, "reg",
                            PCells(rsv_reg(na, ns, addr, size))))

\* The body of the loop for an eligible region, one step per libfdt call;
\* each step gets the run after the call before it and returns at an error.
rsv_child_reg(m, subnode, na, ns, addr, size) ==
    IF Res(m) < 0 THEN Fail(m)
    ELSE rsv_checked(fdt_setprop(m, subnode, "reg",
                                 PCells(rsv_reg(na, ns, addr, size))))

\* Mutant: a failed child creation is skipped and the loop goes on.
rsv_child_nomap_skip(m, na, ns, addr, size) ==
    IF Res(m) < 0 THEN m
    ELSE rsv_child_reg(fdt_setprop_empty(m, Res(m), "no-map"),
                       Res(m), na, ns, addr, size)

rsv_child_nomap(m, na, ns, addr, size) ==
    IF Res(m) < 0 THEN Fail(m)
    ELSE rsv_child_reg(fdt_setprop_empty(m, Res(m), "no-map"),
                       Res(m), na, ns, addr, size)

rsv_child(m, parent, na, ns, j, addr, size) ==
    rsv_child_nomap(fdt_add_subnode(m, parent, rsv_name(na, j, addr)),
                    na, ns, addr, size)

RECURSIVE rsv_loop(_, _, _, _, _, _, _)
\* The loop goes on after a child only when the child's three calls passed.
rsv_next(m, p, parent, na, ns, i, j) ==
    IF m.ret < 0 THEN m ELSE rsv_loop(m, p, parent, na, ns, i + 1, j + 1)

rsv_loop(m, p, parent, na, ns, i, j) ==
    IF i >= MaxPmp THEN m
    ELSE IF ~pmp_active(pmp_get(p, i).prot)
         THEN rsv_loop(m, p, parent, na, ns, i + 1, j)
    ELSE IF pmp_noaccess(pmp_get(p, i).prot)
         THEN rsv_next(rsv_child(m, parent, na, ns, j,
                                 pmp_get(p, i).addr, pmp_get(p, i).size),
                       p, parent, na, ns, i, j)
    ELSE rsv_loop(m, p, parent, na, ns, i + 1, j)

\* The /reserved-memory node and its three properties, when it is missing.
rsv_container_na(m, parent, na) ==
    IF Res(m) < 0 THEN Fail(m)
    ELSE rsv_checked(fdt_setprop_u32(m, parent, "#address-cells", na))

\* Mutant: #size-cells gets the root's address cell count.
rsv_container_ns_swapped(m, parent, na, ns) ==
    IF Res(m) < 0 THEN Fail(m)
    ELSE rsv_container_na(fdt_setprop_u32(m, parent, "#size-cells", na),
                          parent, na)

rsv_container_ns(m, parent, na, ns) ==
    IF Res(m) < 0 THEN Fail(m)
    ELSE rsv_container_na(fdt_setprop_u32(m, parent, "#size-cells", ns),
                          parent, na)

rsv_container_ranges(m, na, ns) ==
    IF Res(m) < 0 THEN Fail(m)
    ELSE rsv_container_ns(fdt_setprop_empty(m, Res(m), "ranges"),
                          Res(m), na, ns)

rsv_container(m, na, ns) ==
    rsv_container_ranges(fdt_add_subnode(m, 0, <<"reserved-memory">>), na, ns)

RsvPath == << <<"reserved-memory">> >>

\* From the lookup of /reserved-memory on; m is the run after the growth.
rsv_children(m, p, na, ns) ==
    IF m.ret < 0 THEN m
    ELSE rsv_loop(m, p, fdt_path_offset(m.f, RsvPath), na, ns, 0, 0)

rsv_located(m, p, na, ns) ==
    IF Res(m) < 0 THEN Fail(m)
    ELSE IF fdt_path_offset(m.f, RsvPath) < 0
         THEN rsv_children(rsv_container(m, na, ns), p, na, ns)
    ELSE rsv_children(m, p, na, ns)

fdt_reserved_memory_fixup(f, p, inj) ==
    IF ~p.has_pmp THEN Start(f, inj)
    ELSE rsv_located(fdt_open_into(Start(f, inj), 256), p,
                     fdt_address_cells(f, 0), fdt_size_cells(f, 0))

---------------------------------------------------------------------------
(* Specification of fdt_reserved_memory_fixup.                             *)

\* PMP entries: off, a guard region below one cell, a guard region (TOR
\* mode) whose address and size need two cells, a read-only region.
PmpOff == [prot |-> 0, addr |-> 0, size |-> 0]
PmpGuardLow == [prot |-> PMP_A, addr |-> ByteBase + 2, size |-> 2]
PmpGuardHigh == [prot |-> PMP_A \div 3,
                 addr |-> 3 * CellBase + ByteBase + 2, size |-> CellBase + 1]
PmpReadOnly == [prot |-> PMP_A + PMP_R, addr |-> 2 * ByteBase + 1, size |-> 1]
PmpKinds == {PmpOff, PmpGuardLow, PmpGuardHigh, PmpReadOnly}

\* The /reserved-memory node the blob comes with, if any: none, one with the
\* root's cell counts, one with the other cell counts, one that already has a
\* child named like a PMP child.
RsvKinds == {"absent", "same", "other", "child"}

RsvBlob(na, ns, kind, slack) ==
    LET rsv == [name |-> <<"reserved-memory">>, parent |-> 0,
                props |-> (IF kind = "other" THEN CellsProps(3 - na, 3 - ns)
                           ELSE CellsProps(na, ns))
                          @@ ("ranges" :> PCells(<<>>))]
        kid == [name |-> <<"mmode_pmp", 1, ByteBase + 2>>, parent |-> 1,
                props |-> ("no-map" :> PCells(<<>>))]
        nodes == <<RootNode(CellsProps(na, ns))>>
                 \o (IF kind = "absent" THEN <<>> ELSE <<rsv>>)
                 \o (IF kind = "child" THEN <<kid>> ELSE <<>>)
    IN  [slack |-> slack, strs |-> NamesOf(nodes) \cup {"reg"},
         nodes |-> nodes]

InitRsv ==
    /\ \E na \in {1, 2}, ns \in {1, 2}, kind \in RsvKinds, slack \in {0, 512} :
           fdt = RsvBlob(na, ns, kind, slack)
    /\ fdt0 = fdt
    /\ \E pmp \in [1..MaxPmp -> PmpKinds], has_pmp \in BOOLEAN :
           plat = [NoPlat EXCEPT !.has_pmp = has_pmp, !.pmp = pmp]
    /\ out = NoOut
    /\ out0 = NoOut
    /\ call = NoCall

\* A call on which no fault is injected.
RsvFixup ==
    /\ call.n < MaxCalls
    /\ Returned("fdt_reserved_memory_fixup", "",
                fdt_reserved_memory_fixup(fdt, plat, 0), 0)

\* A first call whose inj-th libfdt call fails.
RsvFixupFault ==
    /\ call.n = 0
    /\ \E inj \in 1..(5 + 3 * MaxPmp) :
           Returned("fdt_reserved_memory_fixup", "fault",
                    fdt_reserved_memory_fixup(fdt, plat, inj), inj)

NextRsv == RsvFixup \/ RsvFixupFault
SpecRsv == InitRsv /\ [][NextRsv]_vars

---------------------------------------------------------------------------
(* fdt_fixups: the PLIC fixup, then the reserved-memory fixup; neither      *)
(* result is looked at and nothing is returned.                             *)

fdt_fixups(f, p) ==
    [fdt_reserved_memory_fixup(fdt_plic_fixup(f, "riscv,plic0"), p, 0)
        EXCEPT !.ret = 0]

InitFixups ==
    /\ \E ie \in PlicProps, slack \in {0, 512} :
           LET nodes == <<RootNode(CellsProps(2, 1)),
                          PlicNode(<<"plic", 1>>, 0, "riscv,plic0", ie)>>
           IN  fdt = [slack |-> slack, strs |-> NamesOf(nodes) \cup {"reg"},
                      nodes |-> nodes]
    /\ fdt0 = fdt
    /\ \E pmp \in [1..MaxPmp -> {PmpOff, PmpGuardLow}], has_pmp \in BOOLEAN :
           plat = [NoPlat EXCEPT !.has_pmp = has_pmp, !.pmp = pmp]
    /\ out = NoOut
    /\ out0 = NoOut
    /\ call = NoCall

Fixups ==
    /\ call.n < MaxCalls
    /\ Returned("fdt_fixups", "", fdt_fixups(fdt, plat), 0)

NextFixups == Fixups
SpecFixups == InitFixups /\ [][NextFixups]_vars

---------------------------------------------------------------------------
(* fdt_get_node_addr_size and the parsers                                  *)

\* Cell k (0-based) of a property as the code reads it; past the property's
\* end the read returns whatever follows it in the blob (junk).
CellAt(p, k, junk) == IF k < Len(p.c) THEN p.c[k + 1] ELSE junk

\* n turns of temp = (temp << 32) | fdt32_to_cpu(*prop++), temp a uint64_t.
RECURSIVE ReadCells(_, _, _, _, _)
ReadCells(p, k, n, temp, junk) ==
    IF n <= 0 THEN temp
    ELSE ReadCells(p, k + 1, n - 1,
                   (temp * CellBase + fdt32_to_cpu(CellAt(p, k, junk))) % ULong,
                   junk)

\* The result: rc, and *addr and *size where they were asked for and set.
Resolved(rc, addr, size) == [rc |-> rc, addr |-> addr, size |-> size]

addr_size_decode(p, cell_addr, cell_size, want_addr, want_size, junk) ==
    Resolved(0,
             IF want_addr THEN ReadCells(p, 0, cell_addr, 0, junk) ELSE 0,
             IF want_size THEN ReadCells(p, cell_addr, cell_size, 0, junk)
             ELSE 0)

addr_size_cells(f, node, cell_addr, cell_size, want_addr, want_size, junk) ==
    IF cell_addr < 1 THEN Resolved(SBI_ENODEV, 0, 0)
    ELSE IF cell_size < 0 THEN Resolved(SBI_ENODEV, 0, 0)
    ELSE IF ~HasProp(f, node, "reg") THEN Resolved(SBI_ENODEV, 0, 0)
    ELSE addr_size_decode(Prop(f, node, "reg"), cell_addr, cell_size,
                          want_addr, want_size, junk)

addr_size_parent(f, node, parent, want_addr, want_size, junk) ==
    IF parent < 0 THEN Resolved(parent, 0, 0)
    ELSE addr_size_cells(f, node, fdt_address_cells(f, parent),
                         fdt_size_cells(f, parent), want_addr, want_size, junk)

fdt_get_node_addr_size(f, node, want_addr, want_size, junk) ==
    addr_size_parent(f, node, fdt_parent_offset(f, node),
                     want_addr, want_size, junk)

\* fdt_getprop's len: the property's length, negative when it is missing.
GetPropLen(f, off, pn) ==
    IF HasProp(f, off, pn) THEN PropLen(Prop(f, off, pn)) ELSE -FDT_ERR_NOTFOUND

\* field = fdt32_to_cpu(*val) under the code's test of len (and val).
ScalarProp(f, off, pn, old) ==
    IF GetPropLen(f, off, pn) > 0
    THEN fdt32_to_cpu(CellAt(Prop(f, off, pn), 0, 0))
    ELSE old

\* A parser's result: its return value and the descriptor as it leaves it.
Parsed(ret, d) == [ret |-> ret, d |-> d]

\* Mutant: uart->addr is stored before the resolved values are tested.
uart_resolved_early(f, uart, nodeoffset, r) ==
    IF r.rc < 0 THEN Parsed(SBI_ENODEV, uart)
    ELSE IF r.addr = 0 \/ r.size = 0
         THEN Parsed(SBI_ENODEV, [uart EXCEPT !.addr = r.addr])
    ELSE Parsed(0, [addr |-> r.addr,
                    freq |-> ScalarProp(f, nodeoffset, "clock-frequency",
                                        uart.freq),
                    baud |-> ScalarProp(f, nodeoffset, "current-speed",
                                        uart.baud)])

uart_resolved(f, uart, nodeoffset, r) ==
    IF r.rc < 0 \/ r.addr = 0 \/ r.size = 0 THEN Parsed(SBI_ENODEV, uart)
    ELSE Parsed(0, [addr |-> r.addr,
                    freq |-> ScalarProp(f, nodeoffset, "clock-frequency",
                                        uart.freq),
                    baud |-> ScalarProp(f, nodeoffset, "current-speed",
                                        uart.baud)])

uart_found(f, uart, nodeoffset, junk) ==
    IF nodeoffset < 0 THEN Parsed(nodeoffset, uart)
    ELSE uart_resolved(f, uart, nodeoffset,
             fdt_get_node_addr_size(f, nodeoffset, TRUE, TRUE, junk))

fdt_parse_uart8250(f, uart, compatible, junk) ==
    uart_found(f, uart, fdt_node_offset_by_compatible(f, -1, compatible), junk)

plic_resolved(f, plic, nodeoffset, r) ==
    IF r.rc < 0 \/ r.addr = 0 \/ r.size = 0 THEN Parsed(SBI_ENODEV, plic)
    ELSE Parsed(0, [addr |-> r.addr,
                    num_src |-> ScalarProp(f, nodeoffset, "riscv,ndev",
                                           plic.num_src)])

plic_found(f, plic, nodeoffset, junk) ==
    IF nodeoffset < 0 THEN Parsed(nodeoffset, plic)
    ELSE plic_resolved(f, plic, nodeoffset,
             fdt_get_node_addr_size(f, nodeoffset, TRUE, TRUE, junk))

fdt_parse_plic(f, plic, compatible, junk) ==
    plic_found(f, plic, fdt_node_offset_by_compatible(f, -1, compatible), junk)

\* ptr: clint_addr is not NULL; clint: the caller's variable behind it.
clint_resolved(clint, ptr, r) ==
    IF r.rc < 0 \/ ~ptr THEN Parsed(SBI_ENODEV, clint)
    ELSE Parsed(0, r.addr)

clint_found(f, clint, ptr, nodeoffset, junk) ==
    IF nodeoffset < 0 THEN Parsed(nodeoffset, clint)
    ELSE clint_resolved(clint, ptr,
             fdt_get_node_addr_size(f, nodeoffset, ptr, FALSE, junk))

fdt_parse_clint(f, clint, ptr, compatible, junk) ==
    clint_found(f, clint, ptr,
                fdt_node_offset_by_compatible(f, -1, compatible), junk)

---------------------------------------------------------------------------
(* Claims about fdt_reserved_memory_fixup.                                 *)

RsvCalled == call.fn = "fdt_reserved_memory_fixup"
NoOpFailed == \A k \in 1..Len(call.log) : call.log[k].res >= 0

\* A guard region: its mode (bits 3 and 4) is not OFF and it grants no access.
IsGuard(r) == (r.prot \div 8) % 4 # 0 /\ r.prot % 8 = 0
Guards == SelectSeq(plat.pmp, IsGuard)

RootNa == fdt_address_cells(fdt0, 0)
RootNs == fdt_size_cells(fdt0, 0)

\* The name the k-th guard region (k from 0) is to get.
GuardName(k, addr) ==
    IF RootNa = 2 /\ addr >= CellBase
    THEN <<"mmode_pmp", k, addr \div CellBase, addr % CellBase>>
    ELSE <<"mmode_pmp", k, addr % CellBase>>

\* The nodes the last call added, and those under /reserved-memory.
NewNodes == Len(fdt0.nodes)..(Len(fdt.nodes) - 1)
NewKids == {o \in NewNodes : /\ Node(fdt, o).parent >= 0
                             /\ Node(fdt, o).parent = fdt_path_offset(fdt, RsvPath)}

\* C1: with memory protection on and no failing blob operation, the fixup adds
\* exactly one child of /reserved-memory per guard region and none for another
\* region; the k-th guard region in table order gets the name index k.
C1_OneChildPerGuard ==
    (RsvCalled /\ plat.has_pmp /\ NoOpFailed) =>
        /\ Cardinality(NewKids) = Len(Guards)
        /\ \A k \in 1..Len(Guards) :
               \E o \in NewKids :
                   Node(fdt, o).name = GuardName(k - 1, Guards[k].addr)

\* C1 witness: a table whose first entry is no guard region and whose next two
\* are; the call passed and added two children.
C1_Witness ==
    /\ RsvCalled /\ plat.has_pmp /\ NoOpFailed
    /\ ~IsGuard(plat.pmp[1]) /\ plat.pmp[1].prot # 0
    /\ Len(Guards) = 2
    /\ Cardinality(NewKids) = 2

\* A value fits n cells.
Fits(v, n) == IF n = 1 THEN v < CellBase ELSE v < ULong

\* C2: decoding the reg of every child the fixup wrote, with the cell counts
\* of its parent /reserved-memory, gives the source region's address and size,
\* for root cell counts in {1,2}x{1,2} and values that fit them, whether the
\* fixup created /reserved-memory or found it in the blob.
C2_RegRoundTrip ==
    (RsvCalled /\ call.arg = "" /\ call.n = 1 /\ plat.has_pmp /\ NoOpFailed) =>
        \A k \in 1..Len(Guards) :
            (Fits(Guards[k].addr, RootNa) /\ Fits(Guards[k].size, RootNs)) =>
                \A o \in NewKids :
                    Node(fdt, o).name[2] = k - 1 =>
                        fdt_get_node_addr_size(fdt, o, TRUE, TRUE, 0)
                            = Resolved(0, Guards[k].addr, Guards[k].size)

\* C7: the fixup returns at the first failing blob operation with that
\* operation's error: a failing operation is the last one made, its result is
\* the return value, what the operations before it wrote is in the blob, and
\* a failed growth leaves the blob as it was.
C7_FailFast ==
    RsvCalled =>
        /\ \A k \in 1..Len(call.log) :
               IF call.log[k].res < 0
               THEN k = Len(call.log) /\ call.ret = call.log[k].res
               ELSE \/ call.log[k].fn = "fdt_open_into"
                    \/ /\ call.log[k].fn = "fdt_add_subnode"
                       /\ ValidOff(fdt, call.log[k].res)
                       /\ Node(fdt, call.log[k].res).name = call.log[k].name
                       /\ Node(fdt, call.log[k].res).parent = call.log[k].node
                    \/ /\ call.log[k].fn = "fdt_setprop"
                       /\ HasProp(fdt, call.log[k].node, call.log[k].name[1])
        /\ call.ret < 0 => (call.log # <<>> /\ call.log[Len(call.log)].res < 0)
        /\ (call.ret < 0 /\ Len(call.log) = 1) => fdt = fdt0
        /\ \A o \in 0..(Len(fdt0.nodes) - 1) :
               /\ Node(fdt, o).name = Node(fdt0, o).name
               /\ \A pn \in DOMAIN Node(fdt0, o).props : HasProp(fdt, o, pn)

\* C7 witness: the reg of the second child failed; the first child is whole.
C7_Witness ==
    /\ RsvCalled /\ call.ret < 0
    /\ Len(call.log) >= 7
    /\ call.log[Len(call.log)].name = <<"reg">>
    /\ Cardinality(NewKids) = 2
    /\ \E o \in NewKids : HasProp(fdt, o, "reg") /\ HasProp(fdt, o, "no-map")
    /\ \E o \in NewKids : ~HasProp(fdt, o, "reg") /\ HasProp(fdt, o, "no-map")

\* C8: with memory protection on, no failing blob operation and no guard
\* region, the blob ends with a /reserved-memory node: a missing one is
\* created under the root with an empty ranges, the root's #address-cells and
\* #size-cells and no child; one that was there is unchanged.
C8_EmptyContainer ==
    (RsvCalled /\ plat.has_pmp /\ NoOpFailed /\ Len(Guards) = 0) =>
        IF fdt_path_offset(fdt0, RsvPath) >= 0
        THEN fdt.nodes = fdt0.nodes
        ELSE /\ fdt.nodes =
                    Append(fdt0.nodes,
                           [name |-> <<"reserved-memory">>, parent |-> 0,
                            props |-> ("ranges" :> PCells(<<>>))
                                      @@ CellsProps(RootNa, RootNs)])
             /\ Children(fdt, fdt_path_offset(fdt, RsvPath)) = {}

\* C8 witness: the container was created in a blob whose root has different
\* address and size cell counts.
C8_Witness ==
    /\ RsvCalled /\ plat.has_pmp /\ NoOpFailed /\ Len(Guards) = 0
    /\ fdt_path_offset(fdt0, RsvPath) < 0
    /\ fdt_path_offset(fdt, RsvPath) >= 0
    /\ RootNa # RootNs

---------------------------------------------------------------------------
(* Specification of the parsers.                                           *)

\* Cells of a reg property.
MaxReg == 4

Compats == {"ns16550a", "riscv,clint0"}

\* Cell counts a parent declares: -1 for no property.
ParentCells == {<<-1, -1>>, <<0, 1>>, <<1, 0>>, <<1, 1>>, <<2, 1>>, <<2, 2>>}
CountProp(pn, v) == IF v < 0 THEN <<>> ELSE (pn :> PCells(<<cpu_to_fdt32(v)>>))

\* Raw cells of a reg property: zero and a value whose bytes differ.
RegCells == {0, cpu_to_fdt32(ByteBase + 2)}
RegProps ==
    {<<"none">>}
    \cup {<<"prop", c>> : c \in [1..(MaxReg - 1) -> RegCells]
                                \cup [1..MaxReg -> RegCells]}

ParseBlob(rootcompat, pc, reg, scalars) ==
    LET nodes ==
            <<RootNode(CellsProps(2, 2)
                       @@ (IF rootcompat THEN ("compatible" :> PStr("ns16550a"))
                           ELSE <<>>)),
              [name |-> <<"soc">>, parent |-> 0,
               props |-> CountProp("#address-cells", pc[1])
                         @@ CountProp("#size-cells", pc[2])],
              [name |-> <<"serial", 1>>, parent |-> 1,
               props |-> ("compatible" :> PStr("ns16550a"))
                         @@ (IF reg[1] = "none" THEN <<>>
                             ELSE ("reg" :> PCells(reg[2])))
                         @@ (IF scalars
                             THEN ("clock-frequency" :> PCells(<<cpu_to_fdt32(7)>>))
                                  @@ ("current-speed" :> PCells(<<>>))
                                  @@ ("riscv,ndev" :> PCells(<<cpu_to_fdt32(9)>>))
                             ELSE <<>>)]>>
    IN  [slack |-> 0, strs |-> NamesOf(nodes), nodes |-> nodes]

InitParse ==
    /\ \E rootcompat \in BOOLEAN, pc \in ParentCells, reg \in RegProps,
          scalars \in BOOLEAN :
           fdt = ParseBlob(rootcompat, pc, reg, scalars)
    /\ fdt0 = fdt
    /\ plat = NoPlat
    /\ out = [uart |-> [addr |-> 1, freq |-> 2, baud |-> 3],
              plic |-> [addr |-> 1, num_src |-> 2],
              clint |-> 1]
    /\ out0 = out
    /\ call = NoCall

\* The state after a parser returned r for descriptor field d.
ParserReturned(fn, compat, junk, r, d) ==
    /\ out' = [out EXCEPT ![d] = r.d]
    /\ out0' = out
    /\ call' = [Called(fn, compat, Start(fdt, 0), r.ret) EXCEPT !.junk = junk]
    /\ fdt0' = fdt
    /\ UNCHANGED <<fdt, plat>>

ParseUart ==
    /\ call.n < MaxCalls
    /\ \E compat \in Compats, junk \in RegCells :
           ParserReturned("fdt_parse_uart8250", compat, junk,
               fdt_parse_uart8250(fdt, out.uart, compat, junk), "uart")

ParsePlic ==
    /\ call.n < MaxCalls
    /\ \E compat \in Compats, junk \in RegCells :
           ParserReturned("fdt_parse_plic", compat, junk,
               fdt_parse_plic(fdt, out.plic, compat, junk), "plic")

\* clint_addr points to the caller's variable.
ParseClint ==
    /\ call.n < MaxCalls
    /\ \E compat \in Compats, junk \in RegCells :
           ParserReturned("fdt_parse_clint", compat, junk,
               fdt_parse_clint(fdt, out.clint, TRUE, compat, junk), "clint")

\* clint_addr is NULL.
ParseClintNull ==
    /\ call.n < MaxCalls
    /\ \E compat \in Compats, junk \in RegCells :
           ParserReturned("fdt_parse_clint", compat, junk,
               fdt_parse_clint(fdt, out.clint, FALSE, compat, junk), "clint")

NextParse == ParseUart \/ ParsePlic \/ ParseClint \/ ParseClintNull
SpecParse == InitParse /\ [][NextParse]_vars

ParserCalled ==
    call.fn \in {"fdt_parse_uart8250", "fdt_parse_plic", "fdt_parse_clint"}

\* The node the last parser call matched and what its reg resolves to.
ParsedOff == fdt_node_offset_by_compatible(fdt, -1, call.arg)
ParsedReg == fdt_get_node_addr_size(fdt, ParsedOff, TRUE, TRUE, call.junk)

\* C5: a parser that returns success matched a node whose address and size
\* resolve, both to a value that is not zero.
C5_ParsersRejectZero ==
    (ParserCalled /\ call.ret = 0) =>
        /\ ParsedOff >= 0
        /\ ParsedReg.rc = 0
        /\ ParsedReg.addr # 0
        /\ ParsedReg.size # 0

\* C6: a parser that returns a failure leaves every field of every descriptor
\* as it was before the call.
C6_FailureLeavesDescriptor ==
    (ParserCalled /\ call.ret < 0) => out = out0

\* C6 witness: the UART parser failed on a node whose address resolves to a
\* value other than the descriptor's and whose size resolves to zero.
C6_Witness ==
    /\ call.fn = "fdt_parse_uart8250" /\ call.ret = SBI_ENODEV
    /\ ParsedOff >= 0
    /\ ParsedReg.rc = 0
    /\ ParsedReg.addr # 0 /\ ParsedReg.addr # out0.uart.addr
    /\ ParsedReg.size = 0
    /\ out = out0

=============================================================================
